---- MODULE Spec2Model ----
(***************************************************************************)
(* Model of the telemetry layer of the item service                        *)
(* (src/app/telemetry.py) and of the call sites that use it                *)
(* (src/app/app.py, src/app/service.py, src/app/db.py).                    *)
(*                                                                         *)
(* Members of OpenTelemetryGranularity are the upper-case strings          *)
(* "ALL", "DB", "SERVICE", "API", "NONE".  A plain Python string read      *)
(* from the environment is a lower-case string ("api", ...): it is a       *)
(* different value from every member, as in Python, where an Enum member   *)
(* never compares equal to its value.                                      *)
(***************************************************************************)
EXTENDS Naturals, Sequences, FiniteSets

\* ------------------------------------------------------------------ bounds
\* Number of OTELTelemetryClient objects constructed in one run.
MaxClients == 2

\* Number of concurrent callers.
NumThreads == 2

\* ------------------------------------------------------ granularity values
ALL == "ALL"

DB == "DB"

SERVICE == "SERVICE"

API == "API"

NONE == "NONE"

\* The members of the enumeration.
OpenTelemetryGranularity == {NONE, SERVICE, DB, API, ALL}

\* Values the OTEL_TRACE_GRANULARITY environment variable can hold: "unset"
\* stands for an absent variable, "verbose" for a name the enumeration lacks.
EnvValues == {"unset", "none", "service", "db", "api", "all", "verbose"}

\* The names the enumeration defines as member values.
RecognizedNames == {"none", "service", "db", "api", "all"}

\* The list `order` of OpenTelemetryGranularity.__lt__.
order == <<ALL, DB, SERVICE, API, NONE>>

\* list.index raises ValueError for a value the list does not hold.
IndexRaises(x) == \A i \in 1..Len(order) : order[i] # x

\* list.index, zero-based as in Python.
Index(x) == (CHOOSE i \in 1..Len(order) : order[i] = x) - 1

\* A plausible slip: <= in place of <.
LtOrEqual(self, other) == Index(self) <= Index(other)

\* OpenTelemetryGranularity.__lt__ when neither index lookup raises.
Lt(self, other) == Index(self) < Index(other)

\* OpenTelemetryGranularity.__lt__ raising ValueError out of order.index.
LtRaises(self, other) == IndexRaises(self) \/ IndexRaises(other)

\* ------------------------------------------------------------------- state
VARIABLES
  env,              \* OTEL_TRACE_GRANULARITY of the process
  tracer,           \* telemetry.tracer: "None" or "Tracer"
  granularity,      \* telemetry.granularity
  clients,          \* the OTELTelemetryClient objects, in construction order
  appTracer,        \* app.tracer, the name bound by `from app.telemetry import tracer`
  stack,            \* activation records of the calls in progress, innermost last
  done,             \* activation records of the calls that have exited in this run
  spans,            \* the spans started in this run
  current,          \* the active span of the execution context (0: none)
  traceId,          \* what the last telemetry.get_current_span_id() call did
  meterInstruments, \* the instruments created on the module-level meter
  threads,          \* the add_counter calls in progress
  items,            \* db.items, the dict shared by every DummyDBService
  dbCalls           \* the DummyDBService calls of the request threads

vars == <<env, tracer, granularity, clients, appTracer, stack, done, spans,
          current, traceId, meterInstruments, threads, items, dbCalls>>

configVars == <<env, tracer, granularity, clients, appTracer>>

traceVars == <<stack, done, spans, current, traceId>>

counterVars == <<meterInstruments, threads>>

dbVars == <<items, dbCalls>>

\* Counter names passed to add_counter.
Names == {"x", "y"}

\* Concurrent callers: of add_counter, and the request threads that call
\* DummyDBService.
Threads == 1..NumThreads

\* ---------------------------------------------------------------- outcomes
NoOutcome == [kind |-> "none", val |-> "none"]

Return(v) == [kind |-> "return", val |-> v]

Raise(e) == [kind |-> "raise", val |-> e]

\* What the body of a DummyDBService method (or of any other wrapped function
\* that calls nothing traced) can do: return its value, raise a business
\* error, or be interrupted by a cancellation raised into it.
LeafOutcomes ==
  {Return("item"), Raise("ItemAlreadyExistsException"), Raise("CancelledError")}

\* Exceptions that `except Exception` does not catch.
BaseExceptions == {"CancelledError"}

\* ------------------------------------------------------- telemetry client
\* The absent instrument: what a name that is not a key of _counters maps to.
NoInstrument == [name |-> "none", by |-> 0, k |-> 0]

\* self._counters = {}
NoCounters == [n \in Names |-> NoInstrument]

\* OTELTelemetryClient.__init__: the fields of the new object.
NewClient(trace_granularity) ==
  [granularity |-> trace_granularity, counters |-> NoCounters]

\* OTELTelemetryClient.__init__ with _trace_init: the object is built and the
\* module globals tracer and granularity are overwritten.
ConstructClient(trace_granularity) ==
  /\ clients' = Append(clients, NewClient(trace_granularity))
  /\ tracer' = "Tracer"
  /\ granularity' = trace_granularity

\* The module-level statement telemetry = OTELTelemetryClient(...): the
\* environment string, when present, is passed on as it is.
ImportTelemetry ==
  /\ Len(clients) = 0
  /\ ConstructClient(IF env = "unset" THEN ALL ELSE env)
  /\ UNCHANGED <<env, appTracer, traceVars, counterVars, dbVars>>

\* A further OTELTelemetryClient(trace_granularity=g) built by the program.
Construct(g) ==
  /\ Len(clients) >= 1
  /\ Len(clients) < MaxClients
  /\ ConstructClient(g)
  /\ UNCHANGED <<env, appTracer, traceVars, counterVars, dbVars>>

\* `from app.telemetry import ... tracer` in app.py: binds the tracer of that
\* moment; importing app.telemetry has run the module-level construction.
ImportApp ==
  /\ Len(clients) >= 1
  /\ appTracer = "unbound"
  /\ appTracer' = tracer
  /\ UNCHANGED <<env, tracer, granularity, clients, traceVars, counterVars, dbVars>>

\* ------------------------------------------------------------ traced calls
Top == stack[Len(stack)]

Idle == stack = <<>> /\ done = <<>>

NoTraceId ==
  [called |-> FALSE, raised |-> FALSE, value |-> "nothing",
   cfg |-> NONE, tr |-> "None", active |-> FALSE]

\* telemetry.get_current_span_id(): OTELTelemetryClient defines no attribute
\* of that name, so the attribute lookup raises AttributeError.
GetCurrentSpanId ==
  [called |-> TRUE, raised |-> TRUE, value |-> "nothing",
   cfg |-> granularity, tr |-> tracer, active |-> current # 0]

\* The branch taken by trace_method's wrapper: "error" when the comparison
\* raises, "nospan" for the two plain calls of f, "span" for the call of f
\* inside `with tracer.start_as_current_span(...)`.
TracePath(trace_granularity) ==
  IF LtRaises(trace_granularity, granularity) THEN "error"
  ELSE IF Lt(trace_granularity, granularity) THEN "nospan"
  ELSE IF tracer = "None" THEN "nospan"
  ELSE "span"

\* A plausible slip: the new span is started without the active span as parent.
NewSpanDetached(name) == [name |-> name, parent |-> 0, ends |-> 0]

\* tracer.start_as_current_span(name): the span's parent is the span active
\* in the caller's context.
NewSpan(name) == [name |-> name, parent |-> current, ends |-> 0]

\* The activation record of one wrapper (kind "wrap") or of
\* exception_middleware (kind "mw").  cfg and tr are the globals the wrapper
\* read; invoked counts the calls of f; step is the position in the body.
Frame(kind, tg, path) ==
  [kind |-> kind, tg |-> tg, cfg |-> granularity,
   tr |-> IF kind = "mw" THEN appTracer ELSE tracer,
   path |-> path,
   span |-> IF path = "span" THEN Len(spans) + 1 ELSE 0,
   invoked |-> IF path = "error" THEN 0 ELSE 1,
   step |-> IF path = "error" THEN "fin" ELSE "work",
   childOut |-> NoOutcome, workOut |-> NoOutcome, out |-> NoOutcome]

\* Entering a wrapper or the middleware: the span, if any, is started and made
\* current, and the body starts.
Enter(kind, tg, path, name, below) ==
  /\ stack' = Append(below, Frame(kind, tg, path))
  /\ IF path = "span"
       THEN /\ spans' = Append(spans, NewSpan(name))
            /\ current' = Len(spans) + 1
       ELSE UNCHANGED <<spans, current>>

\* A call of a function decorated with trace_method(..., tg), made from
\* outside any traced call.
Call(tg) ==
  /\ Idle
  /\ Enter("wrap", tg, TracePath(tg), tg, stack)
  /\ UNCHANGED <<configVars, done, traceId, counterVars, dbVars>>

\* exception_middleware up to `await call_next(req)`: the span is started with
\* the tracer app.py imported, whatever the granularity.
Request ==
  /\ Idle
  /\ appTracer = "Tracer"
  /\ Enter("mw", "mw", "span", "API.middleware", stack)
  /\ UNCHANGED <<configVars, done, traceId, counterVars, dbVars>>

\* The traced function a body calls: call_next runs the create_item handler,
\* the handler calls ItemService.create_item, which calls
\* DummyDBService.db_create_item; other wrapped functions call nothing traced.
Callee(f) ==
  IF f.kind = "mw" THEN API
  ELSE IF f.tg = API THEN SERVICE
  ELSE IF f.tg = SERVICE THEN DB
  ELSE "leaf"

\* The body reaches its call of the next traced function.
CallNested ==
  /\ stack # <<>>
  /\ Top.step = "work"
  /\ Callee(Top) # "leaf"
  /\ LET caller == [Top EXCEPT !.step = "wait"]
         below == [stack EXCEPT ![Len(stack)] = caller]
     IN Enter("wrap", Callee(Top), TracePath(Callee(Top)), Callee(Top), below)
  /\ UNCHANGED <<configVars, done, traceId, counterVars, dbVars>>

\* The body of a function that calls nothing traced finishes.
LeafFinish(o) ==
  /\ stack # <<>>
  /\ Top.step = "work"
  /\ Callee(Top) = "leaf"
  /\ stack' = [stack EXCEPT ![Len(stack)] = [Top EXCEPT !.workOut = o, !.step = "fin"]]
  /\ UNCHANGED <<configVars, done, spans, current, traceId, counterVars, dbVars>>

\* Whether the rest of the body calls telemetry.get_current_span_id(): the
\* handler does after the service returned, the middleware in its handling of
\* a caught exception.
CallsTraceId(f) ==
  \/ f.kind = "wrap" /\ f.tg = API /\ f.childOut.kind = "return"
  \/ f.kind = "mw" /\ f.childOut.kind = "raise" /\ f.childOut.val \notin BaseExceptions

\* What the body does once the function it called has come back.
ResumeOutcome(f) ==
  IF CallsTraceId(f)
    THEN IF GetCurrentSpanId.raised
           THEN Raise("AttributeError")
           ELSE Return("response")
    ELSE f.childOut

\* The body continues after its callee returned or raised.
BodyResume ==
  /\ stack # <<>>
  /\ Top.step = "ret"
  /\ stack' = [stack EXCEPT ![Len(stack)] =
                 [Top EXCEPT !.workOut = ResumeOutcome(Top), !.step = "fin"]]
  /\ traceId' = IF CallsTraceId(Top) THEN GetCurrentSpanId ELSE traceId
  /\ UNCHANGED <<configVars, done, spans, current, counterVars, dbVars>>

\* A plausible slip: an error raised inside the span is swallowed.
WrapperOutcomeSwallow(f) ==
  IF f.path = "error" THEN Raise("ValueError")
  ELSE IF f.path = "span" /\ f.workOut.kind = "raise" THEN Return("None")
  ELSE f.workOut

\* What the wrapper hands to its caller: `return f(*args, **kwargs)` on each
\* path, or the ValueError of the comparison.
WrapperOutcome(f) ==
  IF f.path = "error" THEN Raise("ValueError") ELSE f.workOut

\* A plausible slip: the span is ended after a normal return only.
EndsSpanOnReturnOnly(f) == f.path = "span" /\ f.workOut.kind = "return"

\* The with statement ends the span on every exit of its block.
EndsSpan(f) == f.path = "span"

\* The wrapper (or the middleware) exits: the with statement ends its span
\* and restores the caller's active span, and the outcome goes to the caller.
Exit ==
  /\ stack # <<>>
  /\ Top.step = "fin"
  /\ LET f == [Top EXCEPT !.out = WrapperOutcome(Top)]
         rest == SubSeq(stack, 1, Len(stack) - 1)
     IN /\ done' = Append(done, f)
        /\ spans' = IF EndsSpan(f)
                      THEN [spans EXCEPT ![f.span].ends = @ + 1]
                      ELSE spans
        /\ current' = IF f.path = "span" THEN spans[f.span].parent ELSE current
        /\ stack' = IF rest = <<>>
                      THEN rest
                      ELSE [rest EXCEPT ![Len(rest)] =
                              [@ EXCEPT !.childOut = f.out, !.step = "ret"]]
  /\ UNCHANGED <<configVars, traceId, counterVars, dbVars>>

\* The run is over; the next one starts from an empty record.
Reset ==
  /\ stack = <<>>
  /\ done # <<>>
  /\ done' = <<>>
  /\ spans' = <<>>
  /\ current' = 0
  /\ traceId' = NoTraceId
  /\ UNCHANGED <<configVars, stack, counterVars, dbVars>>

\* ---------------------------------------------------------------- counters
\* A plausible slip: the membership test is dropped and a counter is created
\* on every call.
NeedsCreateAlways(c, name) == TRUE

\* add_counter: `name not in self._counters.keys()`.
NeedsCreate(c, name) == clients[c].counters[name] = NoInstrument

\* The new instrument object a create_counter call of caller t builds.  An
\* object is identified by the client whose add_counter built it, its name
\* and its number among the instruments that client built for that name.
FreshInstrument(t) ==
  [name |-> threads[t].name, by |-> threads[t].client,
   k |-> 1 + Cardinality({i \in meterInstruments :
                            i.name = threads[t].name /\ i.by = threads[t].client})]

\* meter.create_counter(name=..., unit=..., description=...) on the module-level
\* meter: a new instrument, or, when the meter already holds an instrument of
\* that name with the same unit and description, that instrument.  Unit and
\* description are not modelled, so both are possible.
CreateCounterResults(t) ==
  {FreshInstrument(t)}
    \cup {i \in meterInstruments : i.name = threads[t].name}

\* Whether every other caller is outside add_counter.
Quiet(t) == \A u \in Threads \ {t} : threads[u].pc \in {"idle", "done"}

\* add_counter is called on client c and evaluates its membership test.
AddCounterCheck(t, c, name) ==
  /\ threads[t].pc \in {"idle", "done"}
  /\ c \in DOMAIN clients
  /\ threads' = [threads EXCEPT ![t] =
       [pc |-> IF NeedsCreate(c, name) THEN "create" ELSE "return",
        client |-> c, name |-> name, inst |-> NoInstrument]]
  /\ UNCHANGED <<configVars, traceVars, meterInstruments, dbVars>>

\* add_counter calls meter.create_counter.
AddCounterCreate(t, i) ==
  /\ threads[t].pc = "create"
  /\ i \in CreateCounterResults(t)
  /\ meterInstruments' = meterInstruments \cup {i}
  /\ threads' = [threads EXCEPT ![t].pc = "store", ![t].inst = i]
  /\ UNCHANGED <<configVars, traceVars, dbVars>>

\* add_counter stores the instrument: self._counters[name] = ...
AddCounterStore(t) ==
  /\ threads[t].pc = "store"
  /\ clients' = [clients EXCEPT
       ![threads[t].client].counters[threads[t].name] = threads[t].inst]
  /\ threads' = [threads EXCEPT ![t].pc = "return"]
  /\ UNCHANGED <<env, tracer, granularity, appTracer, traceVars, meterInstruments, dbVars>>

\* add_counter returns self._counters[name].
AddCounterReturn(t) ==
  /\ threads[t].pc = "return"
  /\ threads' = [threads EXCEPT
       ![t].pc = "done",
       ![t].inst = clients[threads[t].client].counters[threads[t].name]]
  /\ UNCHANGED <<configVars, traceVars, meterInstruments, dbVars>>

\* add_counter is called while no other call of it is in progress.
AddCounterCheckAlone(t, c, name) == Quiet(t) /\ AddCounterCheck(t, c, name)

\* ---------------------------------------------------------------- item store
\* Item ids the callers pass.
ItemIds == {"i1", "i2"}

\* Item payloads the callers pass.
Payloads == {"p", "q"}

\* The DummyDBService methods that take an item id.
DbOps == {"create", "read", "update", "delete"}

\* What a key that is not in the dict maps to.
Absent == "absent"

\* A request thread outside any DummyDBService call.
NoDbCall == [pc |-> "idle", op |-> "none", id |-> "none", out |-> NoOutcome]

\* The error each method raises from its membership test: db_create_item for
\* a key that is present, the others for a key that is absent.
MembershipError(op, id) ==
  IF op = "create"
    THEN IF items[id] # Absent THEN "ItemAlreadyExistsException" ELSE "none"
    ELSE IF items[id] = Absent THEN "ItemNotFoundException" ELSE "none"

\* A method is called and runs up to simulate_slow_db(): the membership test,
\* and for db_create_item and db_update_item the store.
DbBegin(t, op, id, item) ==
  /\ dbCalls[t].pc \in {"idle", "done"}
  /\ IF MembershipError(op, id) # "none"
       THEN /\ dbCalls' = [dbCalls EXCEPT ![t] =
                 [pc |-> "done", op |-> op, id |-> id,
                  out |-> Raise(MembershipError(op, id))]]
            /\ UNCHANGED items
       ELSE /\ dbCalls' = [dbCalls EXCEPT ![t] =
                 [pc |-> "sleep", op |-> op, id |-> id, out |-> NoOutcome]]
            /\ items' = IF op \in {"create", "update"}
                          THEN [items EXCEPT ![id] = item]
                          ELSE items
  /\ UNCHANGED <<configVars, traceVars, counterVars>>

\* What the statement after simulate_slow_db() does: `return self.items[item_id]`
\* and `del self.items[item_id]` both raise KeyError for a key that is gone.
AfterSleep(op, id) ==
  IF items[id] = Absent THEN Raise("KeyError")
  ELSE IF op = "delete" THEN Return("None")
  ELSE Return(items[id])

\* The method resumes after simulate_slow_db() and finishes.
DbFinish(t) ==
  /\ dbCalls[t].pc = "sleep"
  /\ dbCalls' = [dbCalls EXCEPT
       ![t].pc = "done",
       ![t].out = AfterSleep(dbCalls[t].op, dbCalls[t].id)]
  /\ items' = IF dbCalls[t].op = "delete" /\ items[dbCalls[t].id] # Absent
                THEN [items EXCEPT ![dbCalls[t].id] = Absent]
                ELSE items
  /\ UNCHANGED <<configVars, traceVars, counterVars>>

\* The status exception_middleware gives an exception that reaches it.
ErrorCode(exc) ==
  IF exc = "ItemNotFoundException" THEN 404
  ELSE IF exc = "ItemAlreadyExistsException" THEN 409
  ELSE 500

\* ------------------------------------------------------------ specification
Init ==
  /\ env \in EnvValues
  /\ tracer = "None"
  /\ granularity = NONE
  /\ clients = <<>>
  /\ appTracer = "unbound"
  /\ stack = <<>>
  /\ done = <<>>
  /\ spans = <<>>
  /\ current = 0
  /\ traceId = NoTraceId
  /\ meterInstruments = {}
  /\ threads = [t \in Threads |->
                  [pc |-> "idle", client |-> 0, name |-> "none", inst |-> NoInstrument]]
  /\ items = [i \in ItemIds |-> Absent]
  /\ dbCalls = [t \in Threads |-> NoDbCall]

Next ==
  \/ ImportTelemetry
  \/ \E g \in OpenTelemetryGranularity : Construct(g)
  \/ ImportApp
  \/ \E tg \in OpenTelemetryGranularity : Call(tg)
  \/ Request
  \/ CallNested
  \/ \E o \in LeafOutcomes : LeafFinish(o)
  \/ BodyResume
  \/ Exit
  \/ Reset

Spec == Init /\ [][Next]_vars

\* Counter registration with the default environment.
InitCounters == Init /\ env = "unset"

\* add_counter is called on the module's client from concurrent callers.
NextCounters ==
  \/ ImportTelemetry
  \/ \E t \in Threads, c \in 1..MaxClients, n \in Names : AddCounterCheck(t, c, n)
  \/ \E t \in Threads : \E i \in CreateCounterResults(t) : AddCounterCreate(t, i)
  \/ \E t \in Threads : AddCounterStore(t)
  \/ \E t \in Threads : AddCounterReturn(t)

SpecCounters == InitCounters /\ [][NextCounters]_vars

\* Clients are constructed and add_counter is called, one call at a time.
NextSeq ==
  \/ ImportTelemetry
  \/ Construct(ALL)
  \/ \E t \in Threads, c \in 1..MaxClients, n \in Names : AddCounterCheckAlone(t, c, n)
  \/ \E t \in Threads : \E i \in CreateCounterResults(t) : AddCounterCreate(t, i)
  \/ \E t \in Threads : AddCounterStore(t)
  \/ \E t \in Threads : AddCounterReturn(t)

SpecSeq == InitCounters /\ [][NextSeq]_vars

\* ------------------------------------------------------------------ claims
IsWrap(f) == f.kind = "wrap"

\* The wrapper activations of this run, in progress or exited.
Wrappers ==
  {stack[i] : i \in {j \in DOMAIN stack : IsWrap(stack[j])}}
    \cup {done[i] : i \in {j \in DOMAIN done : IsWrap(done[j])}}

\* The wrapper activations that have exited, innermost first.
WrapDone == SelectSeq(done, IsWrap)

\* The spans started by trace_method wrappers.
TracedSpans == {i \in DOMAIN spans : spans[i].name # "API.middleware"}

\* Position in the fixed order [ALL, DB, SERVICE, API, NONE], index 0 = ALL.
RankOf(g) ==
  CASE g = ALL -> 0 [] g = DB -> 1 [] g = SERVICE -> 2 [] g = API -> 3 [] g = NONE -> 4

C2_OutcomeUnchanged ==
  \A i \in DOMAIN WrapDone :
    WrapDone[i].path \in {"span", "nospan"} =>
      /\ WrapDone[i].invoked = 1
      /\ WrapDone[i].workOut.kind \in {"return", "raise"}
      /\ WrapDone[i].out = WrapDone[i].workOut

\* C2 witness: one exited wrapper re-raised the work's error through its span
\* and another returned the work's value on the unspanned path.
C2_Witness ==
  \E i \in DOMAIN WrapDone, j \in DOMAIN WrapDone :
    /\ WrapDone[i].path = "span"
    /\ WrapDone[i].out = Raise("ItemAlreadyExistsException")
    /\ WrapDone[j].path = "nospan"
    /\ WrapDone[j].out = Raise("ItemAlreadyExistsException")

\* C3: a span started by a wrapper is ended at most once, is open only while
\* its wrapper is still in progress, and has been ended exactly once when the
\* wrapper has exited, however the work ended.
C3_SpanClosedOnceOnExit ==
  /\ \A s \in TracedSpans :
       /\ spans[s].ends <= 1
       /\ spans[s].ends = 0 =>
            \E k \in DOMAIN stack : IsWrap(stack[k]) /\ stack[k].span = s
  /\ \A i \in DOMAIN WrapDone :
       WrapDone[i].path = "span" => spans[WrapDone[i].span].ends = 1

\* C3 witness: a wrapper whose work was cancelled has exited with its span
\* ended once.
C3_Witness ==
  \E i \in DOMAIN WrapDone :
    /\ WrapDone[i].path = "span"
    /\ WrapDone[i].workOut = Raise("CancelledError")
    /\ spans[WrapDone[i].span].ends = 1

\* C4: a traced call raises only an error that the wrapped work raised.
C4_OnlyWorkErrors ==
  \A i \in DOMAIN WrapDone :
    WrapDone[i].out.kind = "raise" =>
      WrapDone[i].invoked = 1 /\ WrapDone[i].workOut = WrapDone[i].out

\* The add_counter calls that have returned.
Returned == {t \in Threads : threads[t].pc = "done"}

\* The instruments built by create_counter calls of client c for a name.
CreatedBy(c, n) ==
  {i \in meterInstruments : i.by = c /\ i.name = n}

\* C5: on one client, calls of add_counter with the same name return the same
\* instrument and the client creates an instrument for that name once; calls
\* with different names return different instruments.
C5_AddCounterIdempotent ==
  /\ \A c \in DOMAIN clients, n \in Names : Cardinality(CreatedBy(c, n)) <= 1
  /\ \A t \in Returned, u \in Returned :
       threads[t].client = threads[u].client =>
         /\ threads[t].inst # NoInstrument
         /\ (threads[t].name = threads[u].name) <=> (threads[t].inst = threads[u].inst)

\* C5 witness: two calls with one name on one client have returned the one
\* instrument of that name.
C5_Witness ==
  \E t \in Returned, u \in Returned :
    /\ t # u
    /\ threads[t].client = threads[u].client
    /\ threads[t].name = threads[u].name
    /\ threads[t].inst = threads[u].inst
    /\ threads[t].inst # NoInstrument
    /\ Cardinality(CreatedBy(threads[t].client, threads[t].name)) = 1

\* C6: when no add_counter call is in progress, the callers that asked one
\* client for one name hold the same instrument, the one the client's
\* registry retains for that name.
C6_OneInstrumentUnderRace ==
  (\A t \in Threads : threads[t].pc \in {"idle", "done"}) =>
    \A t \in Returned :
      /\ threads[t].inst = clients[threads[t].client].counters[threads[t].name]
      /\ \A u \in Returned :
           (threads[t].client = threads[u].client /\ threads[t].name = threads[u].name)
             => threads[t].inst = threads[u].inst

\* The wrappers of one create_item chain have all exited and each compared
\* its level with the configured granularity g.
ChainUnder(g) ==
  /\ Len(WrapDone) = 3
  /\ WrapDone[1].tg = DB /\ WrapDone[2].tg = SERVICE /\ WrapDone[3].tg = API
  /\ \A i \in 1..3 : WrapDone[i].cfg = g

\* C7: the chain handler -> ItemService -> DummyDBService emits exactly one
\* span from its traced calls, the handler's, under configured granularity
\* API, and three under ALL, the handler's span being the parent of the
\* service's and the service's the parent of the database's.
C7_ChainSpans ==
  /\ ChainUnder(API) =>
       /\ Cardinality(TracedSpans) = 1
       /\ WrapDone[3].span \in TracedSpans
       /\ spans[WrapDone[3].span].name = API
  /\ ChainUnder(ALL) =>
       /\ Cardinality(TracedSpans) = 3
       /\ \A i \in 1..3 :
            WrapDone[i].span \in TracedSpans
              /\ spans[WrapDone[i].span].name = WrapDone[i].tg
       /\ spans[WrapDone[2].span].parent = WrapDone[3].span
       /\ spans[WrapDone[1].span].parent = WrapDone[2].span

\* C7 witness: a chain has run to its end under ALL and left three spans.
C7_Witness == ChainUnder(ALL) /\ Cardinality(TracedSpans) = 3

\* C8: with a granularity string in the environment that names no member,
\* no client exists and the globals are not installed from that string.
C8_UnrecognizedAborts ==
  env \notin (RecognizedNames \cup {"unset"}) =>
    /\ clients = <<>>
    /\ tracer = "None"
    /\ granularity # env

\* C9: get_current_span_id never raises; it returns nothing when the
\* configured granularity is NONE or no tracer exists, and otherwise a
\* 32-hex-character string while a span is active.
C9_TraceIdNeverRaises ==
  traceId.called =>
    /\ ~traceId.raised
    /\ IF traceId.cfg = NONE \/ traceId.tr = "None"
         THEN traceId.value = "nothing"
         ELSE traceId.active => traceId.value = "hex32"

\* C10: the module-level meter holds at most one counter instrument per name.
C10_OneInstrumentPerName ==
  \A n \in Names :
    Cardinality({i \in meterInstruments : i.name = n}) <= 1

\* The activations of this run, wrappers and middleware, in progress or exited.
Activations ==
  {stack[i] : i \in DOMAIN stack} \cup {done[i] : i \in DOMAIN done}

\* C11: while the configured granularity is NONE no span is opened, neither
\* by a traced call of any call-site granularity nor by the middleware of
\* the request path.
C11_NoSpanUnderNone ==
  \A f \in Activations : f.cfg = NONE => f.path # "span"

\* Concurrent requests on the shared item store.
NextDB ==
  \/ \E t \in Threads, op \in DbOps, id \in ItemIds, item \in Payloads :
       DbBegin(t, op, id, item)
  \/ \E t \in Threads : DbFinish(t)

\* The item store with the default environment.
InitDB == Init /\ env = "unset"

SpecDB == InitDB /\ [][NextDB]_vars

\* C12: a db_read_item, db_update_item or db_delete_item call that has ended
\* either returned or raised ItemNotFoundException, which the middleware maps
\* to 404; it ended with no other error.
C12_OnlyItemNotFound ==
  \A t \in Threads :
    (dbCalls[t].pc = "done" /\ dbCalls[t].op \in {"read", "update", "delete"}) =>
      \/ dbCalls[t].out.kind = "return"
      \/ /\ dbCalls[t].out = Raise("ItemNotFoundException")
         /\ ErrorCode(dbCalls[t].out.val) = 404

====
